---- MODULE Spec2Model ----
(***************************************************************************)
(* Model of the ec-cli bundle tracker (package tracker), of the claim      *)
(* verifiers and the public operations of ApplicationSnapshotImage that    *)
(* its unit tests exercise, and of cmd/internal/image.imageValidator.      *)
(*                                                                         *)
(* Time is counted in hours since the zero time, in UTC.  A timestamp is   *)
(* at midnight UTC exactly when it is a multiple of Day.                   *)
(***************************************************************************)
EXTENDS Integers, Sequences, FiniteSets, TLC

(***************************************************************************)
(* Program constants.                                                      *)
(***************************************************************************)
Hour == 1
Day == Hour * 24
duration == Day * 30
pipelineCollection == "pipeline-bundles"
taskCollection == "task-bundles"
Collections == {pipelineCollection, taskCollection}

(***************************************************************************)
(* Bounds of the model.                                                    *)
(***************************************************************************)
MaxLen == 3
MaxTime == 3
MaxTotal == 3
MaxHalfDays == 1
MaxRuns == 3
MaxNow == 60
MaxAtts == 2
MaxSubjects == 2
MaxCalls == 3
MaxUrls == 2

Digests == {"sha256:AAA", "sha256:BBB"}
Tags == {"t1", "t2"}
Repos == {"registry/p"}

VARIABLES
    records,      \* filterRecords: the argument records
    prune,        \* filterRecords: the argument prune
    now,          \* filterRecords: the local now (time.Now().UTC())
    unique,       \* filterRecords: the local unique after the first loop
    relevant,     \* filterRecords: the returned slice
    pc,           \* position of the call under study
    tracker,      \* the tracker document: output of the last Track, input of the next
    clock,        \* time.Now()
    bundles,      \* registry content: the collections each bundle digest belongs to
    effective,    \* effectiveOn: the returned time
    bundle,       \* the bundle reference tracked again and again, when one is singled out
    runs,         \* number of successful Track runs so far, up to MaxRuns
    snapshot,     \* the ApplicationSnapshotImage under study
    call,         \* the last call: the operation and its arguments
    ret,          \* what the last call returned
    fs,           \* the filesystem injected in the context: directory name to content
    validator     \* the imageValidator under study

vars == <<records, prune, now, unique, relevant, pc, tracker, clock, bundles, effective, bundle, runs,
          snapshot, call, ret, fs, validator>>
filterVars == <<records, prune, now, unique, relevant>>
trackVars == <<tracker, clock, bundles, effective, bundle, runs>>
imageVars == <<snapshot, call, ret, fs, validator>>

(***************************************************************************)
(* bundleRecord as it is held in a list: Repository and Collection are not *)
(* persisted and play no part in filtering.                                *)
(***************************************************************************)
bundleRecord(d, e, t) == [Digest |-> d, EffectiveOn |-> e, Tag |-> t]

(***************************************************************************)
(* image.ImageReference: a resolved reference, tag and digest both known.  *)
(***************************************************************************)
ImageReference(repo, tag, digest) == [Repository |-> repo, Tag |-> tag, Digest |-> digest]

Times == 0..MaxTime
FilterRecordSet == {bundleRecord(d, e, "t1") : d \in Digests, e \in Times}

RECURSIVE SeqsUpTo(_, _)
SeqsUpTo(S, n) ==
    IF n = 0 THEN {<<>>}
    ELSE LET shorter == SeqsUpTo(S, n - 1)
         IN  shorter \cup {Append(s, x) : s \in {q \in shorter : Len(q) = n - 1}, x \in S}

(***************************************************************************)
(* filterRecords, first loop: i runs from the last index down to the       *)
(* first; records[i] is skipped when records[i+1] has the same digest,     *)
(* otherwise it is put in front of unique.  Sequences are 1-based here.    *)
(***************************************************************************)
SameDigestNever(previous, r) == FALSE

SameDigest(previous, r) == previous.Digest = r.Digest

RECURSIVE UniqueLoopBeforeLast(_, _, _)
UniqueLoopBeforeLast(recs, i, acc) ==
    IF i < 1 THEN acc
    ELSE LET r == recs[i]
             last_index == Len(recs)
         IN  IF i >= last_index \/ SameDigest(recs[i + 1], r)
             THEN UniqueLoopBeforeLast(recs, i - 1, acc)
             ELSE UniqueLoopBeforeLast(recs, i - 1, <<r>> \o acc)

RECURSIVE UniqueLoopAnywhere(_, _, _)
UniqueLoopAnywhere(recs, i, acc) ==
    IF i < 1 THEN acc
    ELSE LET r == recs[i]
         IN  IF \E j \in i + 1..Len(recs) : SameDigest(recs[j], r)
             THEN UniqueLoopAnywhere(recs, i - 1, acc)
             ELSE UniqueLoopAnywhere(recs, i - 1, <<r>> \o acc)

RECURSIVE UniqueLoopNewer(_, _, _)
UniqueLoopNewer(recs, i, acc) ==
    IF i < 1 THEN acc
    ELSE LET r == recs[i]
         IN  IF i > 1 /\ SameDigest(recs[i - 1], r)
             THEN UniqueLoopNewer(recs, i - 1, acc)
             ELSE UniqueLoopNewer(recs, i - 1, <<r>> \o acc)

RECURSIVE UniqueLoop(_, _, _)
UniqueLoop(recs, i, acc) ==
    IF i < 1 THEN acc
    ELSE LET r == recs[i]
             last_index == Len(recs)
         IN  IF i < last_index /\ SameDigest(recs[i + 1], r)
             THEN UniqueLoop(recs, i - 1, acc)
             ELSE UniqueLoop(recs, i - 1, <<r>> \o acc)

(***************************************************************************)
(* time.Time.After: strictly later.                                        *)
(***************************************************************************)
AfterReversed(t, u) == u > t

After(t, u) == t > u

(***************************************************************************)
(* filterRecords, second loop: append each record of unique and stop       *)
(* after the first one for which prune && now.After(r.EffectiveOn).        *)
(***************************************************************************)
RECURSIVE RelevantLoopBreakFirst(_, _, _, _, _)
RelevantLoopBreakFirst(uniq, k, acc, p, n) ==
    IF k > Len(uniq) THEN acc
    ELSE LET r == uniq[k]
         IN  IF p /\ After(n, r.EffectiveOn)
             THEN acc
             ELSE RelevantLoopBreakFirst(uniq, k + 1, Append(acc, r), p, n)

RECURSIVE RelevantLoop(_, _, _, _, _)
RelevantLoop(uniq, k, acc, p, n) ==
    IF k > Len(uniq) THEN acc
    ELSE LET r == uniq[k]
             acc2 == Append(acc, r)
         IN  IF p /\ After(n, r.EffectiveOn)
             THEN acc2
             ELSE RelevantLoop(uniq, k + 1, acc2, p, n)

filterRecords(recs, p, n) ==
    RelevantLoop(UniqueLoop(recs, Len(recs), <<>>), 1, <<>>, p, n)

(***************************************************************************)
(* The tracker document as it is serialized: two maps from repository to   *)
(* a list of records with the persisted fields digest, effective_on, tag.  *)
(***************************************************************************)
noBundle == ImageReference("", "", "")

emptyMap == [r \in {} |-> <<>>]
emptyDocument == [PipelineBundles |-> emptyMap, TaskBundles |-> emptyMap]

Put(m, k, v) == [x \in (DOMAIN m) \cup {k} |-> IF x = k THEN v ELSE m[x]]

(***************************************************************************)
(* newTracker: yaml.Unmarshal of the document followed by setDefaults.     *)
(* The loaded records have no Repository and no Collection (json:"-").     *)
(***************************************************************************)
loadRecord(p) ==
    [Digest |-> p.Digest, EffectiveOn |-> p.EffectiveOn, Tag |-> p.Tag,
     Repository |-> "", Collection |-> ""]

loadList(l) == [i \in 1..Len(l) |-> loadRecord(l[i])]

newTracker(input) ==
    [PipelineBundles |-> [r \in DOMAIN input.PipelineBundles |-> loadList(input.PipelineBundles[r])],
     TaskBundles |-> [r \in DOMAIN input.TaskBundles |-> loadList(input.TaskBundles[r])]]

(***************************************************************************)
(* Output: yaml.Marshal keeps digest, effective_on and tag of each record. *)
(***************************************************************************)
storeRecord(r) == bundleRecord(r.Digest, r.EffectiveOn, r.Tag)

storeList(l) == [i \in 1..Len(l) |-> storeRecord(l[i])]

Output(t) ==
    [PipelineBundles |-> [r \in DOMAIN t.PipelineBundles |-> storeList(t.PipelineBundles[r])],
     TaskBundles |-> [r \in DOMAIN t.TaskBundles |-> storeList(t.TaskBundles[r])]]

(***************************************************************************)
(* addBundleRecord: the record goes in front of the list of its repository *)
(* in its collection; an unexpected collection is ignored.                 *)
(***************************************************************************)
addBundleRecordAppend(t, record) ==
    LET add(collection) ==
            IF record.Repository \notin DOMAIN collection
            THEN Put(collection, record.Repository, <<record>>)
            ELSE Put(collection, record.Repository, Append(collection[record.Repository], record))
    IN  IF record.Collection = pipelineCollection
        THEN [t EXCEPT !.PipelineBundles = add(t.PipelineBundles)]
        ELSE IF record.Collection = taskCollection
        THEN [t EXCEPT !.TaskBundles = add(t.TaskBundles)]
        ELSE t

addBundleRecord(t, record) ==
    LET newRecords == <<record>>
        add(collection) ==
            IF record.Repository \notin DOMAIN collection
            THEN Put(collection, record.Repository, newRecords)
            ELSE Put(collection, record.Repository, newRecords \o collection[record.Repository])
    IN  IF record.Collection = pipelineCollection
        THEN [t EXCEPT !.PipelineBundles = add(t.PipelineBundles)]
        ELSE IF record.Collection = taskCollection
        THEN [t EXCEPT !.TaskBundles = add(t.TaskBundles)]
        ELSE t

(***************************************************************************)
(* time.Time.Round(d): the nearest multiple of d since the zero time,      *)
(* halfway values rounded up.                                              *)
(***************************************************************************)
Round(t, d) ==
    LET r == t % d
    IN  IF r + r < d THEN t - r ELSE t + (d - r)

effectiveOnTruncate(n) == (n + duration) - ((n + duration) % Day)

effectiveOnNoRound(n) == n + duration

effectiveOn(n) == Round(n + duration, Day)

(***************************************************************************)
(* filterBundles: filterRecords on every list of both collections.         *)
(***************************************************************************)
filterBundles(t, p, n) ==
    [PipelineBundles |-> [r \in DOMAIN t.PipelineBundles |-> filterRecords(t.PipelineBundles[r], p, n)],
     TaskBundles |-> [r \in DOMAIN t.TaskBundles |-> filterRecords(t.TaskBundles[r], p, n)]]

(***************************************************************************)
(* inputBundleTags: the distinct repository:tag pairs of both collections. *)
(* They are collected in a Go map and ranged over, so the order of the     *)
(* resulting references is unspecified: any enumeration may come out.      *)
(***************************************************************************)
TagRefsOf(collection) ==
    UNION {{<<r, collection[r][i].Tag>> : i \in 1..Len(collection[r])} : r \in DOMAIN collection}

uniqueTagRefsPipelineOnly(t) == TagRefsOf(t.PipelineBundles)

uniqueTagRefs(t) == TagRefsOf(t.PipelineBundles) \cup TagRefsOf(t.TaskBundles)

RECURSIVE Enumerations(_)
Enumerations(S) ==
    IF S = {} THEN {<<>>}
    ELSE UNION {{<<x>> \o s : s \in Enumerations(S \ {x})} : x \in S}

(***************************************************************************)
(* image.ParseAndResolveAll on the tag references: each repository:tag is  *)
(* resolved by the registry to the digest the tag points to now.           *)
(***************************************************************************)
resolveTagRefs(order, resolve) ==
    [i \in 1..Len(order) |-> ImageReference(order[i][1], order[i][2], resolve[order[i]])]

(***************************************************************************)
(* sets.List(info.collections): the collections of a bundle, sorted.       *)
(***************************************************************************)
SortedListFirst(S) ==
    IF pipelineCollection \in S THEN <<pipelineCollection>>
    ELSE IF taskCollection \in S THEN <<taskCollection>> ELSE <<>>

SortedList(S) ==
    (IF pipelineCollection \in S THEN <<pipelineCollection>> ELSE <<>>)
        \o (IF taskCollection \in S THEN <<taskCollection>> ELSE <<>>)

(***************************************************************************)
(* Track, the loop over refs: one addBundleRecord per collection of the    *)
(* bundle, all with the same effective_on.                                 *)
(***************************************************************************)
RECURSIVE addCollections(_, _, _, _, _)
addCollections(t, ref, cols, j, eff) ==
    IF j > Len(cols) THEN t
    ELSE addCollections(
            addBundleRecord(t, [Digest |-> ref.Digest, Tag |-> ref.Tag,
                                EffectiveOn |-> eff,
                                Repository |-> ref.Repository,
                                Collection |-> cols[j]]),
            ref, cols, j + 1, eff)

RECURSIVE addRefs(_, _, _, _, _)
addRefs(t, refs, i, eff, info) ==
    IF i > Len(refs) THEN t
    ELSE addRefs(addCollections(t, refs[i], SortedList(info[refs[i].Digest]), 1, eff),
                 refs, i + 1, eff, info)

(***************************************************************************)
(* Track after the references are resolved: load, add, filter, serialize.  *)
(* refs holds the resolved urls followed, with freshen, by the resolved    *)
(* tag references of the existing document.                                *)
(***************************************************************************)
TrackOutput(input, refs, p, n, info) ==
    Output(filterBundles(addRefs(newTracker(input), refs, 1, effectiveOn(n), info), p, n))

ListsOf(doc) ==
    {doc.PipelineBundles[r] : r \in DOMAIN doc.PipelineBundles}
        \cup {doc.TaskBundles[r] : r \in DOMAIN doc.TaskBundles}

RECURSIVE SumLen(_)
SumLen(S) ==
    IF S = {} THEN 0
    ELSE LET l == CHOOSE x \in S : TRUE IN Len(l[3]) + SumLen(S \ {l})

TotalRecords(doc) ==
    SumLen({<<"p", r, doc.PipelineBundles[r]>> : r \in DOMAIN doc.PipelineBundles}
           \cup {<<"t", r, doc.TaskBundles[r]>> : r \in DOMAIN doc.TaskBundles})

(***************************************************************************)
(* ApplicationSnapshotImage as its unit tests construct it: a reference    *)
(* and nothing else.  completed records the public operations that have    *)
(* returned nil on the instance.                                           *)
(***************************************************************************)
newSnapshot ==
    [attestations |-> <<>>, configJSON |-> "", parentConfigJSON |-> "", files |-> FALSE,
     completed |-> {}]

noCall == [op |-> ""]

emptyFs == [d \in {} |-> ""]

(***************************************************************************)
(* A []oci.Signature: nil, or a slice of signatures.                       *)
(***************************************************************************)
nilSlice == [isNil |-> TRUE, items |-> <<>>]

slice(items) == [isNil |-> FALSE, items |-> items]

(***************************************************************************)
(* NewImageValidator: the reference and the check options are set, the     *)
(* attestations are not.                                                   *)
(***************************************************************************)
newValidator == [attestations |-> nilSlice]

ImageIdle ==
    /\ snapshot = newSnapshot
    /\ call = noCall
    /\ ret = ""
    /\ fs = emptyFs
    /\ validator = newValidator

FilterIdle ==
    /\ records = <<>>
    /\ prune = FALSE
    /\ now = 0
    /\ unique = <<>>
    /\ relevant = <<>>

TrackIdle ==
    /\ tracker = emptyDocument
    /\ clock = 0
    /\ bundles = [d \in Digests |-> {}]
    /\ effective = 0
    /\ bundle = noBundle
    /\ runs = 0

(***************************************************************************)
(* The attestations an instance holds, by what syntax validation makes of  *)
(* each: a statement that passes its schema, one that violates it, one     *)
(* that cannot be decoded.                                                 *)
(***************************************************************************)
AttKinds == {"valid", "invalid", "undecodable"}

(***************************************************************************)
(* The order of the states New -> Resolved -> ImageVerified ->             *)
(* AttestationsVerified -> AttestationsDecoded -> ConfigFetched ->         *)
(* FilesFetched -> InputWritten, by the operation that enters each state.  *)
(***************************************************************************)
Operations ==
    <<"ValidateImageAccess", "ValidateImageSignature", "ValidateAttestationSignature",
      "ValidateAttestationSyntax", "FetchImageConfig", "FetchImageFiles", "WriteInputFile">>

StateOf(op) ==
    IF op = "FetchParentImageConfig" THEN 5
    ELSE CHOOSE i \in 1..Len(Operations) : Operations[i] = op

Preceding(op) == {Operations[i] : i \in 1..StateOf(op) - 1}

(***************************************************************************)
(* An operation returns: the call and its result are recorded, and the     *)
(* instance takes its new value when the result is nil.                    *)
(***************************************************************************)
Returns(op, err, after) ==
    /\ call' = [op |-> op]
    /\ ret' = err
    /\ snapshot' = IF err = "nil"
                   THEN [after EXCEPT !.completed = @ \cup {op}]
                   ELSE snapshot
    /\ UNCHANGED <<fs, validator>>
    /\ UNCHANGED pc
    /\ UNCHANGED filterVars
    /\ UNCHANGED trackVars

(***************************************************************************)
(* The operations whose outcome is that of the registry or the filesystem  *)
(* they call: on a freshly constructed instance they return nil when the   *)
(* collaborator answers, an error when it fails.                           *)
(***************************************************************************)
ValidateImageAccess ==
    /\ pc = "image"
    /\ \E ok \in BOOLEAN :
          Returns("ValidateImageAccess", IF ok THEN "nil" ELSE "EV001", snapshot)

ValidateImageSignature ==
    /\ pc = "image"
    /\ \E ok \in BOOLEAN :
          Returns("ValidateImageSignature", IF ok THEN "nil" ELSE "EV004", snapshot)

ValidateAttestationSignature ==
    /\ pc = "image"
    /\ \E ok \in BOOLEAN, atts \in SeqsUpTo(AttKinds, MaxAtts) :
          Returns("ValidateAttestationSignature", IF ok THEN "nil" ELSE "EV004",
                  [snapshot EXCEPT !.attestations = atts])

FetchImageConfig ==
    /\ pc = "image"
    /\ \E ok \in BOOLEAN :
          Returns("FetchImageConfig", IF ok THEN "nil" ELSE "error",
                  [snapshot EXCEPT !.configJSON = "{\"Labels\":{\"io.k8s.display-name\":\"Test Image\"}}"])

FetchParentImageConfig ==
    /\ pc = "image"
    /\ \E ok \in BOOLEAN :
          Returns("FetchParentImageConfig", IF ok THEN "nil" ELSE "error",
                  [snapshot EXCEPT !.parentConfigJSON = "{\"Labels\":{\"io.k8s.display-name\":\"Base Image\"}}"])

FetchImageFiles ==
    /\ pc = "image"
    /\ \E ok \in BOOLEAN :
          Returns("FetchImageFiles", IF ok THEN "nil" ELSE "error",
                  [snapshot EXCEPT !.files = TRUE])

WriteInputFile ==
    /\ pc = "image"
    /\ \E ok \in BOOLEAN :
          Returns("WriteInputFile", IF ok THEN "nil" ELSE "error", snapshot)

(***************************************************************************)
(* ValidateAttestationSyntax: refuses an instance without attestations;    *)
(* otherwise goes through the attestations, fails with EV002 at one that   *)
(* cannot be decoded and with EV003 when any violates its schema.          *)
(***************************************************************************)
noAttestationDataNever(atts) == FALSE

noAttestationData(atts) == Len(atts) = 0

validateAllFirstOnly(atts, i, failed) ==
    IF atts[1] = "undecodable" THEN "EV002"
    ELSE IF atts[1] = "invalid" THEN "EV003"
    ELSE "nil"

RECURSIVE validateAll(_, _, _)
validateAll(atts, i, failed) ==
    IF i > Len(atts) THEN (IF failed THEN "EV003" ELSE "nil")
    ELSE IF atts[i] = "undecodable" THEN "EV002"
    ELSE validateAll(atts, i + 1, failed \/ atts[i] = "invalid")

syntaxResult(atts) ==
    IF noAttestationData(atts) THEN "no attestation data"
    ELSE validateAll(atts, 1, FALSE)

ValidateAttestationSyntax ==
    /\ pc = "image"
    /\ Returns("ValidateAttestationSyntax", syntaxResult(snapshot.attestations), snapshot)

(***************************************************************************)
(* Specification of one ApplicationSnapshotImage: its public operations in *)
(* any order.                                                              *)
(***************************************************************************)
InitImage ==
    /\ ImageIdle
    /\ pc = "image"
    /\ FilterIdle
    /\ TrackIdle

NextImage ==
    \/ ValidateImageAccess
    \/ ValidateImageSignature
    \/ ValidateAttestationSignature
    \/ ValidateAttestationSyntax
    \/ FetchImageConfig
    \/ FetchParentImageConfig
    \/ FetchImageFiles
    \/ WriteInputFile

SpecImage == InitImage /\ [][NextImage]_vars

(***************************************************************************)
(* The claim verifiers that ValidateImageSignature and                     *)
(* ValidateAttestationSignature install in the check options.  A map is a  *)
(* function on the set of its keys; a nil map has no keys.                 *)
(***************************************************************************)
Maps(K, V) == UNION {[S -> V] : S \in SUBSET K}

Hash(algorithm, hex) == [Algorithm |-> algorithm, Hex |-> hex]

(* v1.Hash.String: the full algo:hex form. *)
HashString(h) == h.Algorithm \o ":" \o h.Hex

correctAnnotations(wanted, have) ==
    \A k \in DOMAIN wanted : k \in DOMAIN have /\ have[k] = wanted[k]

imageClaimVerifierNoAnnotations(payload, digest, annotations) ==
    IF payload.DockerManifestDigest # HashString(digest)
    THEN "invalid or missing digest in claim: " \o payload.DockerManifestDigest
    ELSE "nil"

imageClaimVerifier(payload, digest, annotations) ==
    IF payload.DockerManifestDigest # HashString(digest)
    THEN "invalid or missing digest in claim: " \o payload.DockerManifestDigest
    ELSE IF ~correctAnnotations(annotations, payload.Optional)
    THEN "missing or incorrect annotation"
    ELSE "nil"

RECURSIVE subjectLoopAnyAlgorithm(_, _, _)
subjectLoopAnyAlgorithm(subject, i, digest) ==
    IF i > Len(subject) THEN "no matching subject digest found"
    ELSE IF \E a \in DOMAIN subject[i].Digest : subject[i].Digest[a] = digest.Hex
    THEN "nil"
    ELSE subjectLoopAnyAlgorithm(subject, i + 1, digest)

RECURSIVE subjectLoop(_, _, _)
subjectLoop(subject, i, digest) ==
    IF i > Len(subject) THEN "no matching subject digest found"
    ELSE IF /\ digest.Algorithm \in DOMAIN subject[i].Digest
            /\ subject[i].Digest[digest.Algorithm] = digest.Hex
    THEN "nil"
    ELSE subjectLoop(subject, i + 1, digest)

attestationClaimVerifierAnyAlgorithm(statement, digest) ==
    subjectLoopAnyAlgorithm(statement.Subject, 1, digest)

attestationClaimVerifier(statement, digest) == subjectLoop(statement.Subject, 1, digest)

(***************************************************************************)
(* Specification of one call of the image claim verifier: the payloads,    *)
(* digests and annotations of TestValidateImageSignatureClaims and their   *)
(* neighbours.                                                             *)
(***************************************************************************)
PayloadDigests == {"sha256:dabbad00", "sha256:ffbaddD11", "sha512:dabbad00", "dabbad00"}

ImageHashes == {Hash("sha256", "dabbad00"), Hash("sha512", "dabbad00"), Hash("sha256", "ffbaddD11")}

AnnotationMaps == Maps({"a", "b"}, {"x", "y"})

InitImageClaim ==
    /\ pc = "claim"
    /\ snapshot = newSnapshot
    /\ \E d \in PayloadDigests, opt \in AnnotationMaps, h \in ImageHashes, ann \in AnnotationMaps :
          call = [op |-> "imageClaimVerifier",
                  payload |-> [DockerManifestDigest |-> d, Optional |-> opt],
                  digest |-> h, annotations |-> ann]
    /\ ret = ""
    /\ fs = emptyFs
    /\ validator = newValidator
    /\ FilterIdle
    /\ TrackIdle

CallImageClaimVerifier ==
    /\ pc = "claim"
    /\ call.op = "imageClaimVerifier"
    /\ ret' = imageClaimVerifier(call.payload, call.digest, call.annotations)
    /\ pc' = "verified"
    /\ UNCHANGED <<snapshot, call, fs, validator>>
    /\ UNCHANGED filterVars
    /\ UNCHANGED trackVars

NextImageClaim == CallImageClaimVerifier

SpecImageClaim == InitImageClaim /\ [][NextImageClaim]_vars

(***************************************************************************)
(* Specification of one call of the attestation claim verifier: the        *)
(* statements and digests of TestValidateAttestationSignatureClaims and    *)
(* their neighbours.                                                       *)
(***************************************************************************)
DigestSets == Maps({"sha256", "sha512"}, {"dabbad00", "dead10cc"})

Subjects == {[Digest |-> m] : m \in DigestSets}

AttestationHashes == {Hash(a, x) : a \in {"sha256", "sha512"}, x \in {"dabbad00", "dead10cc"}}

InitAttestationClaim ==
    /\ pc = "claim"
    /\ snapshot = newSnapshot
    /\ \E subject \in SeqsUpTo(Subjects, MaxSubjects), h \in AttestationHashes :
          call = [op |-> "attestationClaimVerifier",
                  statement |-> [Subject |-> subject],
                  digest |-> h]
    /\ ret = ""
    /\ fs = emptyFs
    /\ validator = newValidator
    /\ FilterIdle
    /\ TrackIdle

CallAttestationClaimVerifier ==
    /\ pc = "claim"
    /\ call.op = "attestationClaimVerifier"
    /\ ret' = attestationClaimVerifier(call.statement, call.digest)
    /\ pc' = "verified"
    /\ UNCHANGED <<snapshot, call, fs, validator>>
    /\ UNCHANGED filterVars
    /\ UNCHANGED trackVars

NextAttestationClaim == CallAttestationClaimVerifier

SpecAttestationClaim == InitAttestationClaim /\ [][NextAttestationClaim]_vars

(***************************************************************************)
(* ValidateImageAccess step by step: one HEAD request per attempt against  *)
(* a transport that answers each request in turn.  A transient failure     *)
(* (timeout) is retried until maxAttempts requests have been made; any     *)
(* other failure is returned at once.                                      *)
(***************************************************************************)
maxAttempts == 5

Answers == {"ok", "timeout", "not found"}

RECURSIVE SeqsOfLen(_, _)
SeqsOfLen(S, n) ==
    IF n = 0 THEN {<<>>}
    ELSE {Append(s, x) : s \in SeqsOfLen(S, n - 1), x \in S}

Transports == SeqsOfLen(Answers, maxAttempts + 1)

isTransientNever(answer) == FALSE

isTransient(answer) == answer = "timeout"

InitAccess ==
    /\ pc = "access"
    /\ snapshot = newSnapshot
    /\ \E transport \in Transports :
          call = [op |-> "ValidateImageAccess", transport |-> transport, heads |-> 0]
    /\ ret = ""
    /\ fs = emptyFs
    /\ validator = newValidator
    /\ FilterIdle
    /\ TrackIdle

HeadSucceeds ==
    /\ pc = "access"
    /\ call.transport[call.heads + 1] = "ok"
    /\ call' = [call EXCEPT !.heads = @ + 1]
    /\ ret' = "nil"
    /\ snapshot' = [snapshot EXCEPT !.completed = @ \cup {"ValidateImageAccess"}]
    /\ pc' = "accessed"
    /\ UNCHANGED <<fs, validator>>
    /\ UNCHANGED filterVars
    /\ UNCHANGED trackVars

HeadFailsTransient ==
    /\ pc = "access"
    /\ call.transport[call.heads + 1] # "ok"
    /\ isTransient(call.transport[call.heads + 1])
    /\ call' = [call EXCEPT !.heads = @ + 1]
    /\ IF call.heads + 1 < maxAttempts
       THEN UNCHANGED <<ret, pc>>
       ELSE ret' = "EV001" /\ pc' = "accessed"
    /\ UNCHANGED <<snapshot, fs, validator>>
    /\ UNCHANGED filterVars
    /\ UNCHANGED trackVars

HeadFails ==
    /\ pc = "access"
    /\ call.transport[call.heads + 1] # "ok"
    /\ ~isTransient(call.transport[call.heads + 1])
    /\ call' = [call EXCEPT !.heads = @ + 1]
    /\ ret' = "EV001"
    /\ pc' = "accessed"
    /\ UNCHANGED <<snapshot, fs, validator>>
    /\ UNCHANGED filterVars
    /\ UNCHANGED trackVars

NextAccess == HeadSucceeds \/ HeadFailsTransient \/ HeadFails

SpecAccess == InitAccess /\ [][NextAccess]_vars

(***************************************************************************)
(* WriteInputFile with the filesystem it writes to.  afero.TempDir makes a *)
(* directory <tempdir>/ecp_input.<digits> that does not exist yet; the     *)
(* marshalled input is written to input.json in it, and the path and the   *)
(* same bytes are returned.  A failure of TempDir creates nothing, a       *)
(* failure of the write leaves the directory without its file.  seq counts *)
(* the calls made so far.                                                  *)
(***************************************************************************)
tempDir == "/tmp"

DirNames == {"ecp_input." \o ToString(n) : n \in 1..MaxCalls + 1}

freshNamesAny(files) == DirNames

freshNames(files) == DirNames \ DOMAIN files

inputJSONPath(name) == tempDir \o "/" \o name \o "/input.json"

noFile == [written |-> FALSE]

file(bytes) == [written |-> TRUE, bytes |-> bytes]

(* json.Marshal of the input: the statements of the attestations, in order. *)
marshalInput(a) == [attestations |-> a.attestations]

noResult == [path |-> "", inputJSON |-> marshalInput(newSnapshot), err |-> ""]

InputAttestations == {<<>>, <<"valid">>, <<"valid", "valid">>}

InitInput ==
    /\ pc = "input"
    /\ \E atts \in InputAttestations : snapshot = [newSnapshot EXCEPT !.attestations = atts]
    /\ call = [op |-> "", seq |-> 0]
    /\ ret = noResult
    /\ fs = emptyFs
    /\ validator = newValidator
    /\ FilterIdle
    /\ TrackIdle

WriteInputFileToFs ==
    /\ pc = "input"
    /\ call.seq < MaxCalls
    /\ \E name \in freshNames(fs) :
          LET inputJSON == marshalInput(snapshot)
          IN  /\ fs' = Put(fs, name, file(inputJSON))
              /\ ret' = [path |-> inputJSONPath(name), inputJSON |-> inputJSON, err |-> "nil"]
    /\ call' = [op |-> "WriteInputFile", seq |-> call.seq + 1]
    /\ snapshot' = [snapshot EXCEPT !.completed = @ \cup {"WriteInputFile"}]
    /\ UNCHANGED <<pc, validator>>
    /\ UNCHANGED filterVars
    /\ UNCHANGED trackVars

WriteInputFileFails ==
    /\ pc = "input"
    /\ call.seq < MaxCalls
    /\ \/ UNCHANGED fs
       \/ \E name \in freshNames(fs) : fs' = Put(fs, name, noFile)
    /\ ret' = [noResult EXCEPT !.err = "error"]
    /\ call' = [op |-> "WriteInputFile", seq |-> call.seq + 1]
    /\ UNCHANGED <<snapshot, pc, validator>>
    /\ UNCHANGED filterVars
    /\ UNCHANGED trackVars

NextInput == WriteInputFileToFs \/ WriteInputFileFails

SpecInput == InitInput /\ [][NextInput]_vars

(***************************************************************************)
(* cmd/internal/image.imageValidator.  Each method is given the answer of  *)
(* the cosign call it makes: the signatures, and the error or nil.  The    *)
(* result is the validator after the call and the returned error.          *)
(***************************************************************************)
Signatures == {"att1", "att2"}

Slices == {nilSlice} \cup {slice(q) : q \in SeqsUpTo(Signatures, MaxAtts)}

CosignAnswers == [attestations : Slices, err : {"nil", "no matching attestations"}]

imageValidatorValidateImageSignature(i, answer) == [i |-> i, err |-> answer.err]

imageValidatorValidateAttestationSignatureStoresFirst(i, answer) ==
    [i |-> [i EXCEPT !.attestations = answer.attestations], err |-> answer.err]

imageValidatorValidateAttestationSignature(i, answer) ==
    IF answer.err # "nil"
    THEN [i |-> i, err |-> answer.err]
    ELSE [i |-> [i EXCEPT !.attestations = answer.attestations], err |-> "nil"]

imageValidatorAttestations(i) == i.attestations

(***************************************************************************)
(* Specification of one imageValidator: its methods in any order, up to    *)
(* MaxCalls calls.  call holds the last call, its number and the answer    *)
(* cosign gave; ret holds the returned error, or the returned slice.       *)
(***************************************************************************)
InitValidator ==
    /\ pc = "validator"
    /\ validator = newValidator
    /\ call = [op |-> "NewImageValidator", seq |-> 0]
    /\ ret = [err |-> "nil"]
    /\ snapshot = newSnapshot
    /\ fs = emptyFs
    /\ FilterIdle
    /\ TrackIdle

CallValidateImageSignature ==
    /\ pc = "validator"
    /\ call.seq < MaxCalls
    /\ \E answer \in CosignAnswers :
          LET result == imageValidatorValidateImageSignature(validator, answer)
          IN  /\ validator' = result.i
              /\ ret' = [err |-> result.err]
              /\ call' = [op |-> "ValidateImageSignature", seq |-> call.seq + 1, answer |-> answer]
    /\ UNCHANGED <<pc, snapshot, fs>>
    /\ UNCHANGED filterVars
    /\ UNCHANGED trackVars

CallValidateAttestationSignature ==
    /\ pc = "validator"
    /\ call.seq < MaxCalls
    /\ \E answer \in CosignAnswers :
          LET result == imageValidatorValidateAttestationSignature(validator, answer)
          IN  /\ validator' = result.i
              /\ ret' = [err |-> result.err]
              /\ call' = [op |-> "ValidateAttestationSignature", seq |-> call.seq + 1,
                          answer |-> answer]
    /\ UNCHANGED <<pc, snapshot, fs>>
    /\ UNCHANGED filterVars
    /\ UNCHANGED trackVars

CallAttestations ==
    /\ pc = "validator"
    /\ call.seq < MaxCalls
    /\ ret' = [attestations |-> imageValidatorAttestations(validator)]
    /\ call' = [op |-> "Attestations", seq |-> call.seq + 1]
    /\ UNCHANGED <<pc, validator, snapshot, fs>>
    /\ UNCHANGED filterVars
    /\ UNCHANGED trackVars

NextValidator ==
    \/ CallValidateImageSignature
    \/ CallValidateAttestationSignature
    \/ CallAttestations

SpecValidator == InitValidator /\ [][NextValidator]_vars

(***************************************************************************)
(* Specification of one call of filterRecords on arbitrary arguments.      *)
(***************************************************************************)
InitFilter ==
    /\ ImageIdle
    /\ records \in SeqsUpTo(FilterRecordSet, MaxLen)
    /\ prune \in BOOLEAN
    /\ now \in Times
    /\ unique = <<>>
    /\ relevant = <<>>
    /\ pc = "call"
    /\ tracker = emptyDocument
    /\ clock = 0
    /\ bundles = [d \in Digests |-> {}]
    /\ effective = 0
    /\ bundle = noBundle
    /\ runs = 0

CallFilterRecords ==
    /\ pc = "call"
    /\ unique' = UniqueLoop(records, Len(records), <<>>)
    /\ relevant' = filterRecords(records, prune, now)
    /\ pc' = "done"
    /\ UNCHANGED <<records, prune, now>>
    /\ UNCHANGED trackVars
    /\ UNCHANGED imageVars

NextFilter == CallFilterRecords

SpecFilter == InitFilter /\ [][NextFilter]_vars

(***************************************************************************)
(* Specification of the tracker: starting from no document, Track is run   *)
(* again and again on its previous output while the clock advances.  A     *)
(* run in which a reference does not resolve or a bundle cannot be         *)
(* inspected returns an error and outputs nothing: it leaves the document  *)
(* as it is, so only the runs that succeed are steps.  The clock is read   *)
(* once per run.                                                           *)
(***************************************************************************)
ClockStops ==
    {k * (Day \div 2) : k \in 0..MaxHalfDays}
        \cup {duration + Day + k * (Day \div 2) : k \in 0..MaxHalfDays}

RefSet == {ImageReference(r, t, d) : r \in Repos, t \in Tags, d \in Digests}

(***************************************************************************)
(* The urls given to one run, resolved: none or one.  Runs with several    *)
(* references arise with freshen.                                          *)
(***************************************************************************)
UrlLists == {<<>>} \cup {<<ref>> : ref \in RefSet}

InitTrack ==
    /\ ImageIdle
    /\ tracker = emptyDocument
    /\ clock = 0
    /\ bundles \in [Digests -> SUBSET Collections]
    /\ effective = 0
    /\ bundle = noBundle
    /\ runs = 0
    /\ pc = "track"
    /\ records = <<>>
    /\ prune = FALSE
    /\ now = 0
    /\ unique = <<>>
    /\ relevant = <<>>

Tick ==
    /\ pc = "track"
    /\ \E c \in ClockStops : c > clock /\ clock' = c
    /\ UNCHANGED <<tracker, bundles, effective, bundle, runs, pc>>
    /\ UNCHANGED filterVars
    /\ UNCHANGED imageVars

FitsBounds(doc) == TotalRecords(doc) <= MaxTotal

Track ==
    /\ pc = "track"
    /\ \E urls \in UrlLists, p \in BOOLEAN, freshen \in BOOLEAN :
         LET tagRefs == IF freshen THEN uniqueTagRefs(newTracker(tracker)) ELSE {}
         IN  \E order \in Enumerations(tagRefs), resolve \in [tagRefs -> Digests] :
                /\ tracker' = TrackOutput(tracker, urls \o resolveTagRefs(order, resolve),
                                          p, clock, bundles)
                /\ FitsBounds(tracker')
    /\ UNCHANGED <<clock, bundles, effective, bundle, runs, pc>>
    /\ UNCHANGED filterVars
    /\ UNCHANGED imageVars

NextTrack == Tick \/ Track

SpecTrack == InitTrack /\ [][NextTrack]_vars

(***************************************************************************)
(* Specification of one call of effectiveOn at an arbitrary clock value.   *)
(***************************************************************************)
InitEffective ==
    /\ ImageIdle
    /\ clock \in 0..MaxNow
    /\ effective = 0
    /\ pc = "effectiveOn"
    /\ tracker = emptyDocument
    /\ bundles = [d \in Digests |-> {}]
    /\ bundle = noBundle
    /\ runs = 0
    /\ records = <<>>
    /\ prune = FALSE
    /\ now = 0
    /\ unique = <<>>
    /\ relevant = <<>>

CallEffectiveOn ==
    /\ pc = "effectiveOn"
    /\ effective' = effectiveOn(clock)
    /\ pc' = "returned"
    /\ UNCHANGED <<tracker, clock, bundles, bundle, runs>>
    /\ UNCHANGED filterVars
    /\ UNCHANGED imageVars

NextEffective == CallEffectiveOn

SpecEffective == InitEffective /\ [][NextEffective]_vars

(***************************************************************************)
(* Specification of the tracker fed with one and the same bundle: every    *)
(* run tracks the reference bundle, whose tag the registry keeps resolving *)
(* to the same digest, on the output of the previous run.                  *)
(***************************************************************************)
InitSame ==
    /\ ImageIdle
    /\ tracker = emptyDocument
    /\ clock = 0
    /\ bundles \in [Digests -> SUBSET Collections]
    /\ effective = 0
    /\ bundle \in RefSet
    /\ runs = 0
    /\ pc = "track"
    /\ records = <<>>
    /\ prune = FALSE
    /\ now = 0
    /\ unique = <<>>
    /\ relevant = <<>>

TrackSame ==
    /\ pc = "track"
    /\ bundle # noBundle
    /\ runs < MaxRuns
    /\ \E p \in BOOLEAN, freshen \in BOOLEAN :
         LET tagRefs == IF freshen THEN uniqueTagRefs(newTracker(tracker)) ELSE {}
         IN  \E order \in Enumerations(tagRefs) :
                tracker' = TrackOutput(tracker,
                                       <<bundle>> \o resolveTagRefs(order, [x \in tagRefs |-> bundle.Digest]),
                                       p, clock, bundles)
    /\ runs' = runs + 1
    /\ UNCHANGED <<clock, bundles, effective, bundle, pc>>
    /\ UNCHANGED filterVars
    /\ UNCHANGED imageVars

NextSame == Tick \/ TrackSame

SpecSame == InitSame /\ [][NextSame]_vars

(***************************************************************************)
(* Specification of one run of Track, its arguments and environment kept   *)
(* in call: the existing document is the output of an earlier run on up to *)
(* MaxUrls references, made where the clock read one of DocumentClocks;    *)
(* the clock advances; then Track runs once.  ret is                       *)
(* the Tracker t of the run after the loop over the references, before     *)
(* filterBundles; tracker is the output.  The order in which inputBundleTags *)
(* returns the tag references is no argument of the run.                   *)
(***************************************************************************)
DocumentClocks == {0, duration + Day}

InitRun ==
    /\ snapshot = newSnapshot
    /\ call = noCall
    /\ ret = emptyDocument
    /\ fs = emptyFs
    /\ validator = newValidator
    /\ bundles \in [Digests -> SUBSET Collections]
    /\ \E urls \in SeqsUpTo(RefSet, MaxUrls), written \in DocumentClocks :
          tracker = TrackOutput(emptyDocument, urls, FALSE, written, bundles)
    /\ clock = 0
    /\ effective = 0
    /\ bundle = noBundle
    /\ runs = 0
    /\ pc = "track"
    /\ FilterIdle

TrackRun ==
    /\ pc = "track"
    /\ \E urls \in UrlLists, p \in BOOLEAN, freshen \in BOOLEAN :
         LET tagRefs == IF freshen THEN uniqueTagRefs(newTracker(tracker)) ELSE {}
         IN  \E order \in Enumerations(tagRefs), resolve \in [tagRefs -> Digests] :
                LET refs == urls \o resolveTagRefs(order, resolve)
                    t == addRefs(newTracker(tracker), refs, 1, effectiveOn(clock), bundles)
                IN  /\ call' = [op |-> "Track", input |-> tracker, urls |-> urls,
                                prune |-> p, freshen |-> freshen, resolve |-> resolve,
                                clock |-> clock]
                    /\ ret' = t
                    /\ tracker' = Output(filterBundles(t, p, clock))
    /\ pc' = "tracked"
    /\ UNCHANGED <<clock, bundles, effective, bundle, runs>>
    /\ UNCHANGED <<snapshot, fs, validator>>
    /\ UNCHANGED filterVars

NextRun == Tick \/ TrackRun

SpecRun == InitRun /\ [][NextRun]_vars

(***************************************************************************)
(* Specification of one call of addBundleRecord: on a Tracker that holds   *)
(* the records of up to MaxUrls references of two repositories, with a     *)
(* record of one of the two collections or of an unexpected one.           *)
(***************************************************************************)
AddRepos == {"registry/p", "registry/q"}

AddRefSet == {ImageReference(r, "t1", d) : r \in AddRepos, d \in Digests}

AddCollections == Collections \cup {"unexpected"}

InitAdd ==
    /\ pc = "add"
    /\ snapshot = newSnapshot
    /\ bundles \in [Digests -> SUBSET Collections]
    /\ \E refs \in SeqsUpTo(AddRefSet, MaxUrls), r \in AddRepos, d \in Digests, c \in AddCollections :
          call = [op |-> "addBundleRecord",
                  t |-> addRefs(newTracker(emptyDocument), refs, 1, effectiveOn(0), bundles),
                  record |-> [Digest |-> d, Tag |-> "t2", EffectiveOn |-> effectiveOn(Day),
                              Repository |-> r, Collection |-> c]]
    /\ ret = emptyDocument
    /\ fs = emptyFs
    /\ validator = newValidator
    /\ tracker = emptyDocument
    /\ clock = 0
    /\ effective = 0
    /\ bundle = noBundle
    /\ runs = 0
    /\ FilterIdle

CallAddBundleRecord ==
    /\ pc = "add"
    /\ ret' = addBundleRecord(call.t, call.record)
    /\ pc' = "added"
    /\ UNCHANGED <<snapshot, call, fs, validator>>
    /\ UNCHANGED filterVars
    /\ UNCHANGED trackVars

NextAdd == CallAddBundleRecord

SpecAdd == InitAdd /\ [][NextAdd]_vars

(***************************************************************************)
(* Specification of a second application: filterRecords called again on    *)
(* the list it returned, with the same prune and the same now; Track run   *)
(* again on its own output with no urls, without freshen, with the same    *)
(* prune, the clock reading the same time.                                 *)
(***************************************************************************)
CallFilterRecordsAgain ==
    /\ pc = "done"
    /\ records' = relevant
    /\ unique' = UniqueLoop(relevant, Len(relevant), <<>>)
    /\ relevant' = filterRecords(relevant, prune, now)
    /\ pc' = "again"
    /\ UNCHANGED <<prune, now>>
    /\ UNCHANGED trackVars
    /\ UNCHANGED imageVars

TrackAgain ==
    /\ pc = "tracked"
    /\ LET t == addRefs(newTracker(tracker), <<>>, 1, effectiveOn(clock), bundles)
       IN  /\ call' = [op |-> "Track", input |-> tracker, urls |-> <<>>,
                       prune |-> call.prune, freshen |-> FALSE, resolve |-> <<>>,
                       clock |-> clock]
           /\ ret' = t
           /\ tracker' = Output(filterBundles(t, call.prune, clock))
    /\ pc' = "retracked"
    /\ UNCHANGED <<clock, bundles, effective, bundle, runs>>
    /\ UNCHANGED <<snapshot, fs, validator>>
    /\ UNCHANGED filterVars

InitAgain == InitFilter \/ InitRun

NextAgain == CallFilterRecords \/ CallFilterRecordsAgain \/ Tick \/ TrackRun \/ TrackAgain

SpecAgain == InitAgain /\ [][NextAgain]_vars

(***************************************************************************)
(* Calls of filterRecords on arbitrary arguments together with the runs    *)
(* of Track.                                                               *)
(***************************************************************************)
Init == InitFilter \/ InitTrack

Next == CallFilterRecords \/ Tick \/ Track

Spec == Init /\ [][Next]_vars

(***************************************************************************)
(* Vocabulary of the properties.                                           *)
(***************************************************************************)
NoAdjacentEqualDigests(l) == \A i \in 1..Len(l) - 1 : l[i].Digest # l[i + 1].Digest

NewestFirst(l) == \A i \in 1..Len(l) - 1 : l[i].EffectiveOn >= l[i + 1].EffectiveOn

RECURSIVE KeepIdx(_, _, _)
KeepIdx(l, S, i) ==
    IF i > Len(l) THEN <<>>
    ELSE (IF i \in S THEN <<l[i]>> ELSE <<>>) \o KeepIdx(l, S, i + 1)

(* C1: the list returned by filterRecords has no two adjacent records with *)
(* the same digest, whatever the input list and prune are, and so has      *)
(* every repository list of both collections after Track.                  *)
C1_NoAdjacentEqualDigests ==
    /\ pc = "done" => NoAdjacentEqualDigests(relevant)
    /\ \A l \in ListsOf(tracker) : NoAdjacentEqualDigests(l)

C1_Witness ==
    /\ pc = "done"
    /\ Len(records) = 3
    /\ records[1].Digest = records[2].Digest
    /\ records[2].Digest # records[3].Digest
    /\ Len(relevant) = 2

C3_AsClaimed ==
    pc = "done" =>
        unique = KeepIdx(records,
                         {i \in 1..Len(records) :
                             i = 1 \/ records[i - 1].Digest # records[i].Digest}, 1)

(* C3 amended: the dedup pass drops a record exactly when its digest       *)
(* equals that of its immediate older neighbour (one index farther from    *)
(* the head), so the oldest record of a run of equal digests is kept.      *)
C3_DedupKeepsOldest ==
    pc = "done" =>
        unique = KeepIdx(records,
                         {i \in 1..Len(records) :
                             i = Len(records) \/ records[i + 1].Digest # records[i].Digest}, 1)

C3_Witness ==
    /\ pc = "done"
    /\ Len(records) = 3
    /\ records[1].Digest = records[2].Digest
    /\ records[2].Digest # records[3].Digest
    /\ records[1].EffectiveOn > records[2].EffectiveOn
    /\ unique = <<records[2], records[3]>>

(* C4: after the dedup pass the records are kept up to and including the   *)
(* first one that is not in the future (effective_on at or before now);    *)
(* the older ones are dropped iff prune, and without prune the result is   *)
(* the deduplicated list.                                                  *)
NotInFuture(l, n) == {k \in 1..Len(l) : l[k].EffectiveOn <= n}

FirstOf(S) == CHOOSE k \in S : \A j \in S : k <= j

C4_StopsAtFirstNotInFuture ==
    pc = "done" =>
        relevant = IF prune /\ NotInFuture(unique, now) # {}
                   THEN SubSeq(unique, 1, FirstOf(NotInFuture(unique, now)))
                   ELSE unique

(* C5 as claimed: effective_on is the current time plus 30 days rounded    *)
(* down to midnight UTC: the latest midnight not later than t+30d.         *)
C5_AsClaimed ==
    pc = "returned" =>
        /\ effective % Day = 0
        /\ effective <= clock + duration
        /\ clock + duration < effective + Day

(* C5 amended: effective_on is the current time plus 30 days rounded to    *)
(* the nearest midnight UTC, halfway values up: less than half a day       *)
(* before t+30d or at most half a day after it.                            *)
C5_RoundsToNearestMidnight ==
    pc = "returned" =>
        /\ effective % Day = 0
        /\ 2 * ((clock + duration) - effective) < Day
        /\ 2 * (effective - (clock + duration)) <= Day

C5_Witness ==
    /\ pc = "returned"
    /\ effective > clock + duration
    /\ 2 * (effective - (clock + duration)) = Day

(* C6: in the tracker produced by Track every record of every repository   *)
(* list of both collections has its effective_on at midnight UTC, the      *)
(* records added by the run and those loaded from the existing document.   *)
C6_MidnightUTC ==
    \A l \in ListsOf(tracker) : \A i \in 1..Len(l) : l[i].EffectiveOn % Day = 0

C6_Witness ==
    /\ pc = "track"
    /\ clock % Day # 0
    /\ \E l \in ListsOf(tracker) :
          /\ Len(l) = 2
          /\ l[1].EffectiveOn = effectiveOn(clock)
          /\ l[1].EffectiveOn > l[2].EffectiveOn

(* C7: starting from an empty tracker, any number of Track runs with the   *)
(* same bundle, each on the previous output and however far the clock has  *)
(* advanced, leaves exactly one record for the bundle in the list of its   *)
(* repository, in every collection the bundle belongs to.                  *)
C7_SameBundleOneRecord ==
    (bundle # noBundle /\ runs >= 1) =>
        /\ \A r \in DOMAIN tracker.PipelineBundles :
              /\ r = bundle.Repository
              /\ pipelineCollection \in bundles[bundle.Digest]
        /\ \A r \in DOMAIN tracker.TaskBundles :
              /\ r = bundle.Repository
              /\ taskCollection \in bundles[bundle.Digest]
        /\ pipelineCollection \in bundles[bundle.Digest]
              => bundle.Repository \in DOMAIN tracker.PipelineBundles
        /\ taskCollection \in bundles[bundle.Digest]
              => bundle.Repository \in DOMAIN tracker.TaskBundles
        /\ \A l \in ListsOf(tracker) :
              /\ Len(l) = 1
              /\ l[1].Digest = bundle.Digest
              /\ l[1].Tag = bundle.Tag

C7_Witness ==
    /\ bundle # noBundle
    /\ runs = MaxRuns
    /\ clock > duration
    /\ bundles[bundle.Digest] = Collections
    /\ Len(tracker.PipelineBundles[bundle.Repository]) = 1
    /\ Len(tracker.TaskBundles[bundle.Repository]) = 1

(* C8 as claimed: an operation succeeds only on an instance that has       *)
(* completed every preceding state of New -> Resolved -> ImageVerified ->  *)
(* AttestationsVerified -> AttestationsDecoded -> ConfigFetched ->         *)
(* FilesFetched -> InputWritten.                                           *)
C8_AsClaimed ==
    (pc = "image" /\ ret = "nil") => Preceding(call.op) \subseteq snapshot.completed

(* C8 amended: the operations are not ordered among themselves; the        *)
(* precondition that is enforced is that of ValidateAttestationSyntax,     *)
(* which on an instance that holds no attestations returns 'no attestation *)
(* data' and never succeeds, whatever operations completed before.         *)
C8_SyntaxNeedsAttestations ==
    (pc = "image" /\ call.op = "ValidateAttestationSyntax" /\ snapshot.attestations = <<>>)
        => ret = "no attestation data"

C8_Witness ==
    /\ pc = "image"
    /\ call.op = "ValidateAttestationSyntax"
    /\ ret = "no attestation data"
    /\ snapshot.completed = {"FetchImageConfig", "WriteInputFile"}

(* C9: the image claim verifier returns nil iff the payload's              *)
(* docker-manifest-digest equals the expected digest in its full algo:hex  *)
(* form and every expected annotation is in the payload's optional map     *)
(* with an equal value; a digest mismatch gives 'invalid or missing digest *)
(* in claim: <payload digest>', a missing or different annotation gives    *)
(* 'missing or incorrect annotation'.                                      *)
C9_DigestMatches ==
    call.payload.DockerManifestDigest = call.digest.Algorithm \o ":" \o call.digest.Hex

C9_AnnotationsMatch ==
    \A k \in DOMAIN call.annotations :
        /\ k \in DOMAIN call.payload.Optional
        /\ call.payload.Optional[k] = call.annotations[k]

C9_ImageClaimVerifier ==
    (pc = "verified" /\ call.op = "imageClaimVerifier") =>
        /\ ret = "nil" <=> (C9_DigestMatches /\ C9_AnnotationsMatch)
        /\ ~C9_DigestMatches
              => ret = "invalid or missing digest in claim: " \o call.payload.DockerManifestDigest
        /\ (C9_DigestMatches /\ ~C9_AnnotationsMatch)
              => ret = "missing or incorrect annotation"

C9_Witness ==
    /\ pc = "verified"
    /\ call.op = "imageClaimVerifier"
    /\ call.payload.DockerManifestDigest = "sha256:dabbad00"
    /\ call.digest = Hash("sha256", "dabbad00")
    /\ DOMAIN call.annotations = {"a"}
    /\ call.annotations["a"] = "x"
    /\ DOMAIN call.payload.Optional = {"a"}
    /\ call.payload.Optional["a"] = "y"
    /\ ret = "missing or incorrect annotation"

(* C10: the attestation claim verifier returns nil iff at least one entry  *)
(* of the statement's subject list has a digest map that maps the expected *)
(* algorithm to the expected hex; otherwise (no subject, only the hex or   *)
(* only the algorithm matching) it fails with 'no matching subject digest  *)
(* found'.                                                                 *)
C10_SubjectMatches ==
    \E i \in 1..Len(call.statement.Subject) :
        /\ call.digest.Algorithm \in DOMAIN call.statement.Subject[i].Digest
        /\ call.statement.Subject[i].Digest[call.digest.Algorithm] = call.digest.Hex

C10_AttestationClaimVerifier ==
    (pc = "verified" /\ call.op = "attestationClaimVerifier") =>
        /\ ret = "nil" <=> C10_SubjectMatches
        /\ ~C10_SubjectMatches => ret = "no matching subject digest found"

C10_Witness ==
    /\ pc = "verified"
    /\ call.op = "attestationClaimVerifier"
    /\ call.digest = Hash("sha256", "dabbad00")
    /\ Len(call.statement.Subject) = 2
    /\ DOMAIN call.statement.Subject[1].Digest = {"sha512"}
    /\ call.statement.Subject[1].Digest["sha512"] = "dabbad00"
    /\ DOMAIN call.statement.Subject[2].Digest = {"sha256", "sha512"}
    /\ call.statement.Subject[2].Digest["sha256"] = "dabbad00"
    /\ ret = "nil"

(* C11: ValidateAttestationSyntax on an instance that holds no attestations *)
(* returns the error 'no attestation data', a precondition failure: it is  *)
(* neither success nor one of the verification failures EV002 and EV003,   *)
(* and the instance is left as it was.                                     *)
C11_NoAttestationData ==
    (pc = "image" /\ call.op = "ValidateAttestationSyntax" /\ Len(snapshot.attestations) = 0) =>
        /\ ret = "no attestation data"
        /\ ret \notin {"nil", "EV002", "EV003"}

C11_Witness ==
    /\ pc = "image"
    /\ call.op = "ValidateAttestationSyntax"
    /\ snapshot = newSnapshot
    /\ ret = "no attestation data"

(* C12: ValidateAttestationSyntax over a list of attestations goes through *)
(* the whole list: it returns nil iff every attestation passes, EV002 when *)
(* one of them cannot be decoded, and EV003 when all can be decoded and    *)
(* one violates its schema, wherever in the list it stands.                *)
C12_ValidatesEveryAttestation ==
    (pc = "image" /\ call.op = "ValidateAttestationSyntax" /\ Len(snapshot.attestations) > 0) =>
        LET atts == snapshot.attestations
            kinds == {atts[i] : i \in 1..Len(atts)}
        IN  /\ ret = "nil" <=> kinds = {"valid"}
            /\ "undecodable" \in kinds => ret = "EV002"
            /\ ("invalid" \in kinds /\ "undecodable" \notin kinds) => ret = "EV003"

C12_Witness ==
    /\ pc = "image"
    /\ call.op = "ValidateAttestationSyntax"
    /\ snapshot.attestations = <<"valid", "invalid">>
    /\ ret = "EV003"

(* C13: ValidateImageAccess retries timeouts and stops at the first        *)
(* success: when the first k requests time out, k < 5, and request k+1     *)
(* succeeds, it returns nil after exactly k+1 HEAD requests; it never      *)
(* makes more than 5 requests; when all 5 time out or a request fails      *)
(* otherwise, it returns an error.                                         *)
RECURSIVE LeadingTimeouts(_, _)
LeadingTimeouts(transport, i) ==
    IF i > Len(transport) \/ transport[i] # "timeout" THEN i - 1
    ELSE LeadingTimeouts(transport, i + 1)

C13_RetriesUntilSuccess ==
    call.op = "ValidateImageAccess" /\ pc \in {"access", "accessed"} =>
        LET k == LeadingTimeouts(call.transport, 1)
        IN  /\ call.heads <= 5
            /\ pc = "accessed" =>
                  /\ (k < 5 /\ call.transport[k + 1] = "ok")
                        => (ret = "nil" /\ call.heads = k + 1)
                  /\ (k >= 5 \/ call.transport[k + 1] # "ok")
                        => (ret # "nil" /\ ret # "")

C13_Witness ==
    /\ pc = "accessed"
    /\ call.op = "ValidateImageAccess"
    /\ SubSeq(call.transport, 1, 3) = <<"timeout", "timeout", "ok">>
    /\ call.heads = 3
    /\ ret = "nil"

(* C14: every successful WriteInputFile returns a path of the form         *)
(* <tempdir>/ecp_input.<digits>/input.json; the file exists at that path   *)
(* on the injected filesystem with content equivalent to the returned      *)
(* bytes; and the directory of the path did not exist before the call, so  *)
(* no two calls return the same directory.                                 *)
C14_Pattern == {"ecp_input." \o ToString(n) : n \in 0..9}

C14_Returned(result, files) ==
    \E name \in C14_Pattern :
        /\ result.path = tempDir \o "/" \o name \o "/input.json"
        /\ name \in DOMAIN files
        /\ files[name].written
        /\ files[name].bytes = result.inputJSON

C14_FreshDirectory ==
    (pc = "input" /\ call'.seq # call.seq /\ ret'.err = "nil") =>
        \A name \in DOMAIN fs : ret'.path # tempDir \o "/" \o name \o "/input.json"

C14_InputFileWritten ==
    /\ [](pc = "input" /\ ret.err = "nil" => C14_Returned(ret, fs))
    /\ [][C14_FreshDirectory]_vars

C14_Witness ==
    /\ pc = "input"
    /\ ret.err = "nil"
    /\ Cardinality({name \in DOMAIN fs : fs[name].written}) = 2
    /\ snapshot.attestations = <<"valid", "valid">>

(* C15: for fixed inputs (existing document, urls, registry answers,       *)
(* clock, prune and freshen) Track produces the same output in every       *)
(* execution: the output of the run is the output under every order in     *)
(* which the tag references of the existing document can be re-resolved.   *)
C15_SameOutputInEveryExecution ==
    pc = "tracked" =>
        \A order \in Enumerations(DOMAIN call.resolve) :
            tracker = TrackOutput(call.input, call.urls \o resolveTagRefs(order, call.resolve),
                                  call.prune, call.clock, bundles)

(* Vocabulary of the properties of one run of Track.                       *)
CollectionOf(doc, c) == IF c = pipelineCollection THEN doc.PipelineBundles ELSE doc.TaskBundles

ListOf(doc, c, r) == IF r \in DOMAIN CollectionOf(doc, c) THEN CollectionOf(doc, c)[r] ELSE <<>>

TagPairs(doc) ==
    {<<r, t>> \in Repos \X Tags :
        \E c \in Collections : \E i \in 1..Len(ListOf(doc, c, r)) : ListOf(doc, c, r)[i].Tag = t}

HeadIs(l, d) == Len(l) > 0 /\ l[1].Digest = d

(* C16 as claimed: with freshen one reference per distinct (repository,    *)
(* tag) pair of the existing document is re-resolved, and a tag that now   *)
(* resolves to a digest different from the head record of its list gets a  *)
(* new head record carrying the new digest; without freshen only the urls  *)
(* are processed.                                                          *)
C16_AsClaimed ==
    pc = "tracked" =>
        /\ DOMAIN call.resolve = (IF call.freshen THEN TagPairs(call.input) ELSE {})
        /\ ~call.freshen =>
              tracker = TrackOutput(call.input, call.urls, call.prune, call.clock, bundles)
        /\ \A tr \in DOMAIN call.resolve : \A c \in Collections :
              (/\ \E i \in 1..Len(ListOf(call.input, c, tr[1])) :
                     ListOf(call.input, c, tr[1])[i].Tag = tr[2]
               /\ ~HeadIs(ListOf(call.input, c, tr[1]), call.resolve[tr]))
                 => HeadIs(ListOf(tracker, c, tr[1]), call.resolve[tr])

(* C16 amended: with freshen one reference per distinct (repository, tag)  *)
(* pair of the existing document is re-resolved and processed after the    *)
(* urls; for each collection the bundle it resolves to is classified into, *)
(* if the head record of the repository's list in that collection has a    *)
(* different digest (or there is no list), the output list holds a record  *)
(* with the resolved digest and the effective_on of this run, with only    *)
(* records of this run in front of it.  Without freshen only the urls are  *)
(* processed.                                                              *)
C16_FreshenAddsResolvedDigest ==
    pc = "tracked" =>
        /\ DOMAIN call.resolve = (IF call.freshen THEN TagPairs(call.input) ELSE {})
        /\ ~call.freshen =>
              tracker = TrackOutput(call.input, call.urls, call.prune, call.clock, bundles)
        /\ \A tr \in DOMAIN call.resolve : \A c \in bundles[call.resolve[tr]] :
              ~HeadIs(ListOf(call.input, c, tr[1]), call.resolve[tr])
                 => LET out == ListOf(tracker, c, tr[1])
                    IN  \E i \in 1..Len(out) :
                           /\ out[i].Digest = call.resolve[tr]
                           /\ \A j \in 1..i : out[j].EffectiveOn = effectiveOn(call.clock)

C16_Witness ==
    /\ pc = "tracked"
    /\ call.freshen
    /\ call.urls = <<>>
    /\ call.clock > duration
    /\ \E tr \in DOMAIN call.resolve : \E c \in bundles[call.resolve[tr]] :
          /\ Len(ListOf(call.input, c, tr[1])) = 1
          /\ ListOf(call.input, c, tr[1])[1].Tag = tr[2]
          /\ ListOf(call.input, c, tr[1])[1].Digest # call.resolve[tr]
          /\ Len(ListOf(tracker, c, tr[1])) = 2
          /\ ListOf(tracker, c, tr[1])[1].Digest = call.resolve[tr]
          /\ ListOf(tracker, c, tr[1])[1].EffectiveOn > ListOf(tracker, c, tr[1])[2].EffectiveOn

(* C17: for each resolved bundle Track adds exactly one record per         *)
(* collection the bundle is classified into, in front of the list of the   *)
(* bundle's repository: the records of a bundle in both collections carry  *)
(* the same digest, tag and effective_on; a collection the bundle is not   *)
(* in is left unchanged; a bundle in no collection adds nothing.           *)
C17_Added(c, r) ==
    Cardinality({i \in 1..Len(call.urls) :
                    call.urls[i].Repository = r /\ c \in bundles[call.urls[i].Digest]})
        + Cardinality({tr \in DOMAIN call.resolve : tr[1] = r /\ c \in bundles[call.resolve[tr]]})

C17_IsRecordOf(rec, c, r) ==
    /\ rec.EffectiveOn = effectiveOn(call.clock)
    /\ rec.Repository = r
    /\ rec.Collection = c
    /\ c \in bundles[rec.Digest]
    /\ \/ \E i \in 1..Len(call.urls) :
             call.urls[i] = ImageReference(r, rec.Tag, rec.Digest)
       \/ \E tr \in DOMAIN call.resolve :
             tr = <<r, rec.Tag>> /\ call.resolve[tr] = rec.Digest

C18_Frame ==
    pc = "added" =>
        LET rec == call.record
            before == CollectionOf(call.t, rec.Collection)
            after == CollectionOf(ret, rec.Collection)
        IN  IF rec.Collection \in Collections
            THEN /\ DOMAIN after = DOMAIN before \cup {rec.Repository}
                 /\ after[rec.Repository] = <<rec>> \o ListOf(call.t, rec.Collection, rec.Repository)
                 /\ \A r \in DOMAIN before : r # rec.Repository => after[r] = before[r]
                 /\ \A c \in Collections \ {rec.Collection} :
                       CollectionOf(ret, c) = CollectionOf(call.t, c)
            ELSE ret = call.t

C18_Witness ==
    /\ pc = "added"
    /\ call.record.Collection = taskCollection
    /\ call.record.Repository = "registry/q"
    /\ DOMAIN call.t.TaskBundles = AddRepos
    /\ Len(call.t.TaskBundles["registry/q"]) = 1
    /\ DOMAIN call.t.PipelineBundles = {"registry/p"}
    /\ Len(ret.TaskBundles["registry/q"]) = 2
    /\ ret.TaskBundles["registry/q"][2] = call.t.TaskBundles["registry/q"][1]

(* C19: filterRecords collapses only adjacent duplicates.  Without prune   *)
(* the result is the list less some records that each have a neighbour     *)
(* with the same digest; and when a digest occurs at two positions with a  *)
(* record of another digest between them, the run of equal digests around  *)
(* each of the two positions keeps its last record, so both occurrences    *)
(* stay in the result.                                                     *)
C19_RunEnd(l, i) ==
    CHOOSE j \in i..Len(l) :
        /\ \A k \in i..j : l[k].Digest = l[i].Digest
        /\ j = Len(l) \/ l[j + 1].Digest # l[i].Digest

C20_Precondition ==
    \A l \in ListsOf(call.input) :
        /\ NewestFirst(l)
        /\ \A i \in 1..Len(l) : l[i].EffectiveOn <= effectiveOn(call.clock)

C20_NewestFirstPreserved ==
    (pc = "tracked" /\ C20_Precondition) =>
        \A l \in ListsOf(tracker) :
            /\ NewestFirst(l)
            /\ \A i \in 1..Len(l) : l[1].EffectiveOn >= l[i].EffectiveOn

C20_Witness ==
    /\ pc = "tracked"
    /\ C20_Precondition
    /\ call.freshen
    /\ Len(call.urls) = 1
    /\ \E l \in ListsOf(tracker) :
          /\ Len(l) = 3
          /\ l[1].EffectiveOn = l[2].EffectiveOn
          /\ l[2].EffectiveOn > l[3].EffectiveOn

(* C21: the imageValidator never turns a failed verification into stored   *)
(* state.  ValidateAttestationSignature replaces the held attestations by  *)
(* the verified ones only when the verification returns no error; on an    *)
(* error it returns that error and leaves the held attestations as they    *)
(* were.  ValidateImageSignature never changes them.  Attestations()       *)
(* returns the held attestations, nil on a new validator.                  *)
C21_Call ==
    /\ call'.op = "ValidateAttestationSignature" =>
          IF call'.answer.err = "nil"
          THEN /\ ret'.err = "nil"
               /\ validator'.attestations = call'.answer.attestations
          ELSE /\ ret'.err = call'.answer.err
               /\ validator'.attestations = validator.attestations
    /\ call'.op = "ValidateImageSignature" =>
          /\ ret'.err = call'.answer.err
          /\ validator'.attestations = validator.attestations
    /\ call'.op = "Attestations" =>
          /\ ret'.attestations = validator.attestations
          /\ validator'.attestations = validator.attestations

C21_FailureIsNotStored ==
    /\ [](pc = "validator" /\ call.seq = 0 => validator.attestations = nilSlice)
    /\ [][(pc = "validator" /\ call'.seq # call.seq) => C21_Call]_vars

C21_Witness ==
    /\ pc = "validator"
    /\ call.op = "ValidateAttestationSignature"
    /\ call.seq = 2
    /\ call.answer.err # "nil"
    /\ call.answer.attestations = slice(<<"att2">>)
    /\ ret.err = call.answer.err
    /\ validator.attestations = slice(<<"att1">>)

(* C22: filterRecords is idempotent at a fixed clock: called on the list   *)
(* it returned, with the same prune, it returns that list; and Track with  *)
(* no urls on its own output, at the same time, with the same prune and    *)
(* without freshen, outputs the document it was given.                     *)
C22_Idempotent ==
    /\ pc = "again" => relevant = records
    /\ pc = "retracked" => tracker = call.input

C22_Witness ==
    /\ pc = "again"
    /\ prune
    /\ Len(records) = 2
    /\ records[1].EffectiveOn > now
    /\ records[2].EffectiveOn < now
    /\ relevant = records

(* C23: filterRecords never empties a list and never invents or reorders   *)
(* records: for a non-empty list and either value of prune the result is a *)
(* non-empty subsequence of the input, the same records in the same        *)
(* relative order.                                                         *)
C23_NonEmptySubsequence ==
    (pc = "done" /\ Len(records) > 0) =>
        /\ Len(relevant) > 0
        /\ \E S \in SUBSET (1..Len(records)) : relevant = KeepIdx(records, S, 1)

C23_Witness ==
    /\ pc = "done"
    /\ prune
    /\ Len(records) = 3
    /\ \A i \in 1..3 : records[i].EffectiveOn < now
    /\ records[1].Digest # records[2].Digest
    /\ records[2].Digest # records[3].Digest
    /\ relevant = <<records[1]>>

====
